---- MODULE Spec2Model ----
(***************************************************************************)
(* The iterative root-finding engine of ZOF_Project: the six methods of    *)
(* app.py (the web engine, which collects the trace in `rows`) and the six *)
(* same-named methods of ZOF_CLI.py (the command-line engine, which prints  *)
(* the trace).                                                              *)
(*                                                                         *)
(* Numbers.  A Python float is modelled as a binary floating-point number  *)
(* with Precision significand bits, gradual underflow with quantum         *)
(* 2^-FracBits, round-to-nearest-even, and an exponent range that is not   *)
(* bounded above (overflow to inf, and NaN results, are not modelled).  A  *)
(* float is represented by the integer that counts its quanta; with        *)
(* Precision = 53 and FracBits = 1074 the operators below are IEEE-754     *)
(* binary64 +, -, * and / on finite values.                                 *)
(*                                                                         *)
(* Evaluators.  f, df and g are opaque deterministic callables: the value  *)
(* at a point is chosen when the point is first evaluated and remembered   *)
(* (fmem, dmem, gmem), so a second call at the same point returns the same *)
(* value.                                                                   *)
(***************************************************************************)
EXTENDS Integers, Sequences, FiniteSets, TLC

Precision == 3
FracBits == 2
MaxIter == 3

RECURSIVE Pow2(_)
Pow2(n) == IF n <= 0 THEN 1 ELSE 2 * Pow2(n - 1)

One == Pow2(FracBits)
Half == Pow2(FracBits - 1)
Two == 2 * One

Abs(n) == IF n < 0 THEN 0 - n ELSE n
Sign(n) == IF n < 0 THEN 0 - 1 ELSE IF n > 0 THEN 1 ELSE 0

\* The spacing of the floats around magnitude v (in quanta).
RECURSIVE Ulp(_)
Ulp(v) == IF v < Pow2(Precision) THEN 1 ELSE 2 * Ulp(v \div 2)

\* n/d (d > 0) to the nearest multiple of step, ties to the even multiple.
NearestEven(n, d, step) ==
    LET D == d * step
        k == n \div D
        r == n % D
    IN  IF 2 * r > D \/ (2 * r = D /\ k % 2 = 1) THEN (k + 1) * step ELSE k * step

\* The float nearest to the rational n/d quanta (d > 0).
Round(n, d) == Sign(n) * NearestEven(Abs(n), d, Ulp(Abs(n) \div d))

FAdd(x, y) == Round(x + y, 1)
FSub(x, y) == Round(x - y, 1)
FMul(x, y) == Round(x * y, One)
\* x / y for y # 0 (Python raises ZeroDivisionError before dividing by zero).
FDiv(x, y) == IF y = 0 THEN 0 ELSE Round(x * One * Sign(y), Abs(y))
FAbs(x) == Abs(x)

----------------------------------------------------------------------------
(* Python values that are not floats.  A local that can be None, NaN or    *)
(* unbound holds a tagged pair; Num(v) is the float v.                     *)
Num(v) == <<"float", v>>
PyNone == <<"None", 0>>
PyNaN == <<"nan", 0>>
Unbound == <<"unbound", 0>>
Val(t) == t[2]

\* The names of the exceptions the engine ends with.
ValueError == "ValueError"
ZeroDivisionError == "ZeroDivisionError"
UnboundLocalError == "UnboundLocalError"
NoError == "None"

\* No tuple returned (yet).
NoResult == << >>

----------------------------------------------------------------------------
(* The evaluators: opaque, deterministic callables.                        *)
NoCalls == [x \in {} |-> 0]
FVals == {0 - 4, 0, 1, 4}
DVals == {0 - 4, 0, 2}
GVals == {0, 3, 4, 6}

\* The values a call at x may return: the remembered one, or any of vals.
Eval(mem, x, vals) == IF x \in DOMAIN mem THEN {mem[x]} ELSE vals
Remember(mem, x, v) == IF x \in DOMAIN mem THEN mem ELSE (x :> v) @@ mem

----------------------------------------------------------------------------
(* The inputs of one run.                                                   *)
Methods == {"bisection", "regula_falsi", "secant", "newton_raphson",
            "fixed_point_iteration", "modified_secant"}
Brackets == {<<0, 8>>, <<4, 5>>, <<5, 7>>, <<4, 0 - 4>>}
Pairs == {<<0, 4>>, <<4, 8>>, <<6, 6>>}
Guesses == {0, 4}
Deltas == {2}
\* <<max_iter, tol>>: every cap up to MaxIter with a valid tolerance, and the
\* configurations the data model excludes (max_iter <= 0, tol < 0).
Configs == ((0 .. MaxIter) \X {0, 4}) \cup {<<0 - 1, 4>>, <<1, 0 - 1>>, <<2, 0 - 1>>}

Args(m) ==
    CASE m \in {"bisection", "regula_falsi"} ->
           {[a |-> p[1], b |-> p[2], max_iter |-> k[1], tol |-> k[2]] :
               p \in Brackets, k \in Configs}
      [] m = "secant" ->
           {[x0 |-> p[1], x1 |-> p[2], max_iter |-> k[1], tol |-> k[2]] :
               p \in Pairs, k \in Configs}
      [] m \in {"newton_raphson", "fixed_point_iteration"} ->
           {[x0 |-> x, max_iter |-> k[1], tol |-> k[2]] :
               x \in Guesses, k \in Configs}
      [] m = "modified_secant" ->
           {[x0 |-> x, delta |-> d, max_iter |-> k[1], tol |-> k[2]] :
               x \in Guesses, d \in Deltas, k \in Configs}

----------------------------------------------------------------------------
VARIABLES
    impl,      \* which engine runs: "web" (app.py) or "cli" (ZOF_CLI.py)
    method,    \* the function called
    args,      \* its arguments
    pc,        \* "entry": called, before the loop; "loop"; "done"
    state,     \* Iterating, Converged, Exhausted or Failed
    i,         \* the loop variable (0 before the first pass)
    loc,       \* the other locals of the frame
    rows,      \* app.py: the local list rows
    out,       \* ZOF_CLI.py: the lines printed so far
    result,    \* the tuple returned, NoResult if none
    error,     \* the exception raised, NoError if none
    fmem,      \* the calls of f made so far, and their values
    dmem,      \* the calls of df
    gmem,      \* the calls of g_func
    webOut     \* the outcome of the web run, kept while the CLI run is made

vars == <<impl, method, args, pc, state, i, loc, rows, out, result, error,
          fmem, dmem, gmem, webOut>>

NoLocals == [none |-> 0]
NotRun == [state |-> "None", result |-> NoResult, error |-> NoError]

Init ==
    /\ impl = "web"
    /\ method \in Methods
    /\ args \in Args(method)
    /\ pc = "entry"
    /\ state = "Iterating"
    /\ i = 0
    /\ loc = NoLocals
    /\ rows = << >>
    /\ out = << >>
    /\ result = NoResult
    /\ error = NoError
    /\ fmem = NoCalls
    /\ dmem = NoCalls
    /\ gmem = NoCalls
    /\ webOut = NotRun

\* raise e: the frame is left, its locals (rows among them) are dropped.
Raise(e) ==
    /\ pc' = "done"
    /\ state' = "Failed"
    /\ error' = e
    /\ result' = NoResult
    /\ rows' = << >>

\* return t, from inside the loop (Converged) or after it (Exhausted).
Return(st, t) ==
    /\ pc' = "done"
    /\ state' = st
    /\ error' = NoError
    /\ result' = t

\* The loop goes on.
Continue == UNCHANGED <<pc, state, error, result>>

----------------------------------------------------------------------------
(* app.py: bisection(f, a, b, max_iter, tol)                                *)

\* fa * fb > 0: no sign change over the bracket.
app_bracket_rejected(fa, fb) == FMul(fa, fb) > 0

\* c = 0.5 * (a + b)
app_bisection_candidate(a, b) == FMul(Half, FAdd(a, b))

\* err = abs(c - c_old) if c_old is not None else None
app_bracket_err(c, c_old) ==
    IF c_old # PyNone THEN Num(FAbs(FSub(c, Val(c_old)))) ELSE PyNone

\* abs(fc) == 0 or (c_old is not None and abs(c - c_old) < tol)
\*              or (abs(b - a) / 2 < tol)
app_bisection_stop(a, b, c, fc, c_old, tol) ==
    \/ FAbs(fc) = 0
    \/ (c_old # PyNone /\ FAbs(FSub(c, Val(c_old))) < tol)
    \/ FDiv(FAbs(FSub(b, a)), Two) < tol

\* if fa * fc < 0: b, fb = c, fc   else: a, fa = c, fc   and then c_old = c
app_bracket_update(l, c, fc) ==
    IF FMul(l.fa, fc) < 0
    THEN [l EXCEPT !.b = c, !.fb = fc, !.c = Num(c), !.c_old = Num(c)]
    ELSE [l EXCEPT !.a = c, !.fa = fc, !.c = Num(c), !.c_old = Num(c)]

\* Mutant: the count returned is one short.
app_bisection_return_count_off(c, fc, k, rs) == <<c, FAbs(fc), k - 1, rs>>

\* return c, abs(fc), i, rows
app_bisection_return(c, fc, k, rs) == <<c, FAbs(fc), k, rs>>

app_bisection_entry ==
    /\ impl = "web" /\ method = "bisection" /\ pc = "entry"
    /\ \E va \in Eval(fmem, args.a, FVals) :
       \E vb \in Eval(Remember(fmem, args.a, va), args.b, FVals) :
          /\ fmem' = Remember(Remember(fmem, args.a, va), args.b, vb)
          /\ loc' = [a |-> args.a, b |-> args.b, fa |-> va, fb |-> vb,
                     c |-> Unbound, c_old |-> PyNone]
          /\ IF app_bracket_rejected(va, vb)
             THEN Raise(ValueError)
             ELSE /\ pc' = "loop"
                  /\ rows' = << >>
                  /\ UNCHANGED <<state, error, result>>
    /\ UNCHANGED <<impl, method, args, i, out, dmem, gmem, webOut>>

app_bisection_pass ==
    /\ impl = "web" /\ method = "bisection" /\ pc = "loop"
    /\ i < args.max_iter
    /\ LET c == app_bisection_candidate(loc.a, loc.b) IN
       \E fc \in Eval(fmem, c, FVals) :
          LET err == app_bracket_err(c, loc.c_old)
              row == <<i + 1, loc.a, loc.b, c, fc, err>>
          IN  /\ fmem' = Remember(fmem, c, fc)
              /\ i' = i + 1
              /\ rows' = Append(rows, row)
              /\ IF app_bisection_stop(loc.a, loc.b, c, fc, loc.c_old, args.tol)
                 THEN /\ Return("Converged", app_bisection_return(c, fc, i + 1, rows'))
                      /\ loc' = [loc EXCEPT !.c = Num(c)]
                 ELSE /\ Continue
                      /\ loc' = app_bracket_update(loc, c, fc)
    /\ UNCHANGED <<impl, method, args, out, dmem, gmem, webOut>>

\* After the loop: return c, abs(f(c)), max_iter, rows
app_bisection_exit ==
    /\ impl = "web" /\ method = "bisection" /\ pc = "loop"
    /\ i >= args.max_iter
    /\ IF loc.c = Unbound
       THEN Raise(UnboundLocalError) /\ UNCHANGED fmem
       ELSE \E v \in Eval(fmem, Val(loc.c), FVals) :
               /\ fmem' = Remember(fmem, Val(loc.c), v)
               /\ Return("Exhausted", app_bisection_return(Val(loc.c), v, args.max_iter, rows))
               /\ UNCHANGED rows
    /\ UNCHANGED <<impl, method, args, i, loc, out, dmem, gmem, webOut>>

----------------------------------------------------------------------------
(* app.py: regula_falsi(f, a, b, max_iter, tol)                             *)

\* The divisor of c = (a * fb - b * fa) / (fb - fa); Python raises
\* ZeroDivisionError when it is 0.
app_regula_denominator(fa, fb) == FSub(fb, fa)
app_regula_candidate(a, b, fa, fb) ==
    FDiv(FSub(FMul(a, fb), FMul(b, fa)), app_regula_denominator(fa, fb))

\* abs(fc) == 0 or (c_old is not None and abs(c - c_old) < tol)
app_regula_stop(c, fc, c_old, tol) ==
    \/ FAbs(fc) = 0
    \/ (c_old # PyNone /\ FAbs(FSub(c, Val(c_old))) < tol)

\* return c, abs(fc), i, rows
app_regula_return(c, fc, k, rs) == <<c, FAbs(fc), k, rs>>

app_regula_falsi_entry ==
    /\ impl = "web" /\ method = "regula_falsi" /\ pc = "entry"
    /\ \E va \in Eval(fmem, args.a, FVals) :
       \E vb \in Eval(Remember(fmem, args.a, va), args.b, FVals) :
          /\ fmem' = Remember(Remember(fmem, args.a, va), args.b, vb)
          /\ loc' = [a |-> args.a, b |-> args.b, fa |-> va, fb |-> vb,
                     c |-> Unbound, c_old |-> PyNone, denom |-> Unbound]
          /\ IF app_bracket_rejected(va, vb)
             THEN Raise(ValueError)
             ELSE /\ pc' = "loop"
                  /\ rows' = << >>
                  /\ UNCHANGED <<state, error, result>>
    /\ UNCHANGED <<impl, method, args, i, out, dmem, gmem, webOut>>

app_regula_falsi_pass ==
    /\ impl = "web" /\ method = "regula_falsi" /\ pc = "loop"
    /\ i < args.max_iter
    /\ i' = i + 1
    /\ LET d == app_regula_denominator(loc.fa, loc.fb)
           c == app_regula_candidate(loc.a, loc.b, loc.fa, loc.fb)
       IN  IF d = 0
           THEN /\ Raise(ZeroDivisionError)
                /\ loc' = [loc EXCEPT !.denom = Num(d)]
                /\ UNCHANGED fmem
           ELSE \E fc \in Eval(fmem, c, FVals) :
                   LET err == app_bracket_err(c, loc.c_old)
                       row == <<i + 1, loc.a, loc.b, c, fc, err>>
                   IN  /\ fmem' = Remember(fmem, c, fc)
                       /\ rows' = Append(rows, row)
                       /\ IF app_regula_stop(c, fc, loc.c_old, args.tol)
                          THEN /\ Return("Converged", app_regula_return(c, fc, i + 1, rows'))
                               /\ loc' = [loc EXCEPT !.c = Num(c), !.denom = Num(d)]
                          ELSE /\ Continue
                               /\ loc' = [app_bracket_update(loc, c, fc) EXCEPT !.denom = Num(d)]
    /\ UNCHANGED <<impl, method, args, out, dmem, gmem, webOut>>

\* After the loop: return c, abs(f(c)), max_iter, rows
app_regula_falsi_exit ==
    /\ impl = "web" /\ method = "regula_falsi" /\ pc = "loop"
    /\ i >= args.max_iter
    /\ IF loc.c = Unbound
       THEN Raise(UnboundLocalError) /\ UNCHANGED fmem
       ELSE \E v \in Eval(fmem, Val(loc.c), FVals) :
               /\ fmem' = Remember(fmem, Val(loc.c), v)
               /\ Return("Exhausted", app_regula_return(Val(loc.c), v, args.max_iter, rows))
               /\ UNCHANGED rows
    /\ UNCHANGED <<impl, method, args, i, loc, out, dmem, gmem, webOut>>

----------------------------------------------------------------------------
(* app.py: secant(f, x0, x1, max_iter, tol)                                 *)

\* The divisor f1 - f0.
app_secant_denominator(f0, f1) == FSub(f1, f0)

\* Mutant: f1 alone is tested.
app_secant_degenerate_f1_only(f0, f1) == f1 = 0

\* if (f1 - f0) == 0: raise ValueError
app_secant_degenerate(f0, f1) == FSub(f1, f0) = 0

\* x2 = x1 - f1 * (x1 - x0) / (f1 - f0)
app_secant_candidate(x0, x1, f0, f1) ==
    FSub(x1, FDiv(FMul(f1, FSub(x1, x0)), app_secant_denominator(f0, f1)))

\* Mutant: the zero-residual test is left out.
app_secant_stop_no_zero_test(f2, err, tol) == err < tol

\* abs(f2) == 0 or err < tol
app_secant_stop(f2, err, tol) == FAbs(f2) = 0 \/ err < tol

\* return x2, abs(f2), i, rows
app_secant_return(x2, f2, k, rs) == <<x2, FAbs(f2), k, rs>>

app_secant_entry ==
    /\ impl = "web" /\ method = "secant" /\ pc = "entry"
    /\ pc' = "loop"
    /\ rows' = << >>
    /\ loc' = [x0 |-> args.x0, x1 |-> args.x1, x2 |-> Unbound, denom |-> Unbound]
    /\ UNCHANGED <<impl, method, args, state, i, out, result, error,
                   fmem, dmem, gmem, webOut>>

app_secant_pass ==
    /\ impl = "web" /\ method = "secant" /\ pc = "loop"
    /\ i < args.max_iter
    /\ i' = i + 1
    /\ \E f0 \in Eval(fmem, loc.x0, FVals) :
       \E f1 \in Eval(Remember(fmem, loc.x0, f0), loc.x1, FVals) :
          LET m1 == Remember(Remember(fmem, loc.x0, f0), loc.x1, f1)
              d == app_secant_denominator(f0, f1)
              x2 == app_secant_candidate(loc.x0, loc.x1, f0, f1)
          IN  IF app_secant_degenerate(f0, f1)
              THEN /\ Raise(ValueError)
                   /\ loc' = [loc EXCEPT !.denom = Num(d)]
                   /\ fmem' = m1
              ELSE \E f2 \in Eval(m1, x2, FVals) :
                      LET err == FAbs(FSub(x2, loc.x1))
                          row == <<i + 1, loc.x0, loc.x1, x2, f2, Num(err)>>
                      IN  /\ fmem' = Remember(m1, x2, f2)
                          /\ rows' = Append(rows, row)
                          /\ IF app_secant_stop(f2, err, args.tol)
                             THEN /\ Return("Converged", app_secant_return(x2, f2, i + 1, rows'))
                                  /\ loc' = [loc EXCEPT !.x2 = Num(x2), !.denom = Num(d)]
                             ELSE /\ Continue
                                  /\ loc' = [x0 |-> loc.x1, x1 |-> x2, x2 |-> Num(x2),
                                             denom |-> Num(d)]
    /\ UNCHANGED <<impl, method, args, out, dmem, gmem, webOut>>

\* After the loop: return x2, abs(f(x2)), max_iter, rows
app_secant_exit ==
    /\ impl = "web" /\ method = "secant" /\ pc = "loop"
    /\ i >= args.max_iter
    /\ IF loc.x2 = Unbound
       THEN Raise(UnboundLocalError) /\ UNCHANGED fmem
       ELSE \E v \in Eval(fmem, Val(loc.x2), FVals) :
               /\ fmem' = Remember(fmem, Val(loc.x2), v)
               /\ Return("Exhausted", app_secant_return(Val(loc.x2), v, args.max_iter, rows))
               /\ UNCHANGED rows
    /\ UNCHANGED <<impl, method, args, i, loc, out, dmem, gmem, webOut>>

----------------------------------------------------------------------------
(* app.py: newton_raphson(f, df, x0, max_iter, tol)                         *)

\* if dfx == 0: raise ValueError
app_newton_zero_derivative(dfx) == dfx = 0

\* x1 = x0 - fx / dfx
app_newton_candidate(x0, fx, dfx) == FSub(x0, FDiv(fx, dfx))

\* Mutant: the zero-residual test is left out.
app_newton_stop_no_zero_test(fx, err, tol) == err < tol

\* abs(fx) == 0 or err < tol
app_newton_stop(fx, err, tol) == FAbs(fx) = 0 \/ err < tol

\* Mutant: the old point x0 of the last row is returned instead of x1.
app_newton_return_old_point(x1, fx1, k, rs) == <<rs[Len(rs)][2], FAbs(fx1), k, rs>>

\* return x1, abs(f(x1)), i, rows
app_newton_return(x1, fx1, k, rs) == <<x1, FAbs(fx1), k, rs>>

app_newton_raphson_entry ==
    /\ impl = "web" /\ method = "newton_raphson" /\ pc = "entry"
    /\ pc' = "loop"
    /\ rows' = << >>
    /\ loc' = [x0 |-> args.x0, x1 |-> Unbound, fx |-> Unbound, dfx |-> Unbound]
    /\ UNCHANGED <<impl, method, args, state, i, out, result, error,
                   fmem, dmem, gmem, webOut>>

app_newton_raphson_pass ==
    /\ impl = "web" /\ method = "newton_raphson" /\ pc = "loop"
    /\ i < args.max_iter
    /\ i' = i + 1
    /\ \E fx \in Eval(fmem, loc.x0, FVals) :
       \E dfx \in Eval(dmem, loc.x0, DVals) :
          LET m1 == Remember(fmem, loc.x0, fx)
              x1 == app_newton_candidate(loc.x0, fx, dfx)
              err == FAbs(FSub(x1, loc.x0))
              row == <<i + 1, loc.x0, fx, dfx, x1, Num(err)>>
          IN  /\ dmem' = Remember(dmem, loc.x0, dfx)
              /\ IF app_newton_zero_derivative(dfx)
                 THEN /\ Raise(ValueError)
                      /\ loc' = [loc EXCEPT !.fx = Num(fx), !.dfx = Num(dfx)]
                      /\ fmem' = m1
                 ELSE /\ rows' = Append(rows, row)
                      /\ IF app_newton_stop(fx, err, args.tol)
                         THEN \E fx1 \in Eval(m1, x1, FVals) :
                                 /\ fmem' = Remember(m1, x1, fx1)
                                 /\ Return("Converged", app_newton_return(x1, fx1, i + 1, rows'))
                                 /\ loc' = [loc EXCEPT !.x1 = Num(x1), !.fx = Num(fx),
                                                       !.dfx = Num(dfx)]
                         ELSE /\ Continue
                              /\ fmem' = m1
                              /\ loc' = [x0 |-> x1, x1 |-> Num(x1), fx |-> Num(fx),
                                         dfx |-> Num(dfx)]
    /\ UNCHANGED <<impl, method, args, out, gmem, webOut>>

\* After the loop: return x1, abs(f(x1)), max_iter, rows
app_newton_raphson_exit ==
    /\ impl = "web" /\ method = "newton_raphson" /\ pc = "loop"
    /\ i >= args.max_iter
    /\ IF loc.x1 = Unbound
       THEN Raise(UnboundLocalError) /\ UNCHANGED fmem
       ELSE \E v \in Eval(fmem, Val(loc.x1), FVals) :
               /\ fmem' = Remember(fmem, Val(loc.x1), v)
               /\ Return("Exhausted", app_newton_return(Val(loc.x1), v, args.max_iter, rows))
               /\ UNCHANGED rows
    /\ UNCHANGED <<impl, method, args, i, loc, out, dmem, gmem, webOut>>

----------------------------------------------------------------------------
(* app.py: fixed_point_iteration(g_func, x0, max_iter, tol)                 *)

\* err < tol
app_fixed_stop(err, tol) == err < tol

\* return x1, err, i, rows
app_fixed_return(x1, err, k, rs) == <<x1, err, k, rs>>

app_fixed_point_iteration_entry ==
    /\ impl = "web" /\ method = "fixed_point_iteration" /\ pc = "entry"
    /\ pc' = "loop"
    /\ rows' = << >>
    /\ loc' = [x0 |-> args.x0, x1 |-> Unbound, err |-> Unbound]
    /\ UNCHANGED <<impl, method, args, state, i, out, result, error,
                   fmem, dmem, gmem, webOut>>

app_fixed_point_iteration_pass ==
    /\ impl = "web" /\ method = "fixed_point_iteration" /\ pc = "loop"
    /\ i < args.max_iter
    /\ i' = i + 1
    /\ \E x1 \in Eval(gmem, loc.x0, GVals) :
          LET err == FAbs(FSub(x1, loc.x0))
              row == <<i + 1, loc.x0, x1, Num(err)>>
          IN  /\ gmem' = Remember(gmem, loc.x0, x1)
              /\ rows' = Append(rows, row)
              /\ IF app_fixed_stop(err, args.tol)
                 THEN /\ Return("Converged", app_fixed_return(x1, err, i + 1, rows'))
                      /\ loc' = [loc EXCEPT !.x1 = Num(x1), !.err = Num(err)]
                 ELSE /\ Continue
                      /\ loc' = [x0 |-> x1, x1 |-> Num(x1), err |-> Num(err)]
    /\ UNCHANGED <<impl, method, args, out, fmem, dmem, webOut>>

\* After the loop: return x1, err, max_iter, rows
app_fixed_point_iteration_exit ==
    /\ impl = "web" /\ method = "fixed_point_iteration" /\ pc = "loop"
    /\ i >= args.max_iter
    /\ IF loc.x1 = Unbound
       THEN Raise(UnboundLocalError)
       ELSE /\ Return("Exhausted",
                      app_fixed_return(Val(loc.x1), Val(loc.err), args.max_iter, rows))
            /\ UNCHANGED rows
    /\ UNCHANGED <<impl, method, args, i, loc, out, fmem, dmem, gmem, webOut>>

----------------------------------------------------------------------------
(* app.py: modified_secant(f, x0, delta, max_iter, tol)                     *)

\* The point x0 + delta * x0 of the second call of f.
app_modified_probe(x0, delta) == FAdd(x0, FMul(delta, x0))

\* denom = f(x0 + delta * x0) - fx;  if denom == 0: raise ValueError
app_modified_denominator(fp, fx) == FSub(fp, fx)

\* x1 = x0 - (delta * x0 * fx) / denom
app_modified_candidate(x0, delta, fx, denom) ==
    FSub(x0, FDiv(FMul(FMul(delta, x0), fx), denom))

\* err < tol
app_modified_stop(err, tol) == err < tol

\* return x1, abs(f(x1)), i, rows
app_modified_return(x1, fx1, k, rs) == <<x1, FAbs(fx1), k, rs>>

app_modified_secant_entry ==
    /\ impl = "web" /\ method = "modified_secant" /\ pc = "entry"
    /\ pc' = "loop"
    /\ rows' = << >>
    /\ loc' = [x0 |-> args.x0, x1 |-> Unbound, denom |-> Unbound]
    /\ UNCHANGED <<impl, method, args, state, i, out, result, error,
                   fmem, dmem, gmem, webOut>>

app_modified_secant_pass ==
    /\ impl = "web" /\ method = "modified_secant" /\ pc = "loop"
    /\ i < args.max_iter
    /\ i' = i + 1
    /\ LET xp == app_modified_probe(loc.x0, args.delta) IN
       \E fx \in Eval(fmem, loc.x0, FVals) :
       \E fp \in Eval(Remember(fmem, loc.x0, fx), xp, FVals) :
          LET m1 == Remember(Remember(fmem, loc.x0, fx), xp, fp)
              denom == app_modified_denominator(fp, fx)
              x1 == app_modified_candidate(loc.x0, args.delta, fx, denom)
              err == FAbs(FSub(x1, loc.x0))
              row == <<i + 1, loc.x0, fx, x1, Num(err)>>
          IN  IF denom = 0
              THEN /\ Raise(ValueError)
                   /\ loc' = [loc EXCEPT !.denom = Num(denom)]
                   /\ fmem' = m1
              ELSE /\ rows' = Append(rows, row)
                   /\ IF app_modified_stop(err, args.tol)
                      THEN \E fx1 \in Eval(m1, x1, FVals) :
                              /\ fmem' = Remember(m1, x1, fx1)
                              /\ Return("Converged", app_modified_return(x1, fx1, i + 1, rows'))
                              /\ loc' = [loc EXCEPT !.x1 = Num(x1), !.denom = Num(denom)]
                      ELSE /\ Continue
                           /\ fmem' = m1
                           /\ loc' = [x0 |-> x1, x1 |-> Num(x1), denom |-> Num(denom)]
    /\ UNCHANGED <<impl, method, args, out, dmem, gmem, webOut>>

\* After the loop: return x1, abs(f(x1)), max_iter, rows
app_modified_secant_exit ==
    /\ impl = "web" /\ method = "modified_secant" /\ pc = "loop"
    /\ i >= args.max_iter
    /\ IF loc.x1 = Unbound
       THEN Raise(UnboundLocalError) /\ UNCHANGED fmem
       ELSE \E v \in Eval(fmem, Val(loc.x1), FVals) :
               /\ fmem' = Remember(fmem, Val(loc.x1), v)
               /\ Return("Exhausted", app_modified_return(Val(loc.x1), v, args.max_iter, rows))
               /\ UNCHANGED rows
    /\ UNCHANGED <<impl, method, args, i, loc, out, dmem, gmem, webOut>>

----------------------------------------------------------------------------
(* ZOF_CLI.py.  A printed line is modelled by the tuple of its fields as   *)
(* the f-string renders them: the digits a format spec keeps, not the      *)
(* value it was given.  The padding to a minimum width is left out; the    *)
(* header line is the function's name.                                      *)
Header(m) == <<m>>

\* Binary64 carries more digits than either format spec prints; the model's
\* floats keep that relation: one fraction bit fewer for .6f, one significant
\* bit fewer for .6e.
FixedBits == FracBits - 1
SciBits == Precision - 1

\* The spacing of the numbers with p significant bits around magnitude v.
RECURSIVE Spacing(_, _)
Spacing(v, p) == IF v < Pow2(p) THEN 1 ELSE 2 * Spacing(v \div 2, p)

\* {v:10.6f}, {v:11.6f}, {v:12.6f}: a fixed number of fraction digits,
\* correctly rounded (ties to even).
FormatFixed(v) == Sign(v) * NearestEven(Abs(v), 1, Pow2(FracBits - FixedBits))

\* {v:12.6e}, {v:10.6e}: a fixed number of significant digits, correctly
\* rounded (ties to even).
FormatSci(v) == Sign(v) * NearestEven(Abs(v), 1, Spacing(Abs(v), SciBits))

\* {err:10.6e} of an error that may be float('nan'): prints "nan".
FormatErr(t) == IF t = PyNaN THEN PyNaN ELSE Num(FormatSci(Val(t)))

----------------------------------------------------------------------------
(* ZOF_CLI.py: bisection(f, a, b, max_iter, tol)                            *)

\* fa * fb > 0
cli_bracket_rejected(fa, fb) == FMul(fa, fb) > 0

\* c = 0.5 * (a + b)
cli_bisection_candidate(a, b) == FMul(Half, FAdd(a, b))

\* err = abs(c - c_old) if c_old is not None else float('nan')
cli_bracket_err(c, c_old) ==
    IF c_old # PyNone THEN Num(FAbs(FSub(c, Val(c_old)))) ELSE PyNaN

\* Mutant: the half-width test is left out.
cli_bisection_stop_no_width(a, b, c, fc, c_old, tol) ==
    \/ FAbs(fc) = 0
    \/ (c_old # PyNone /\ FAbs(FSub(c, Val(c_old))) < tol)

\* abs(fc) == 0 or (c_old is not None and abs(c - c_old) < tol)
\*              or (abs(b-a)/2 < tol)
cli_bisection_stop(a, b, c, fc, c_old, tol) ==
    \/ FAbs(fc) = 0
    \/ (c_old # PyNone /\ FAbs(FSub(c, Val(c_old))) < tol)
    \/ FDiv(FAbs(FSub(b, a)), Two) < tol

\* if fa * fc < 0: b, fb = c, fc   else: a, fa = c, fc   and then c_old = c
cli_bracket_update(l, c, fc) ==
    IF FMul(l.fa, fc) < 0
    THEN [l EXCEPT !.b = c, !.fb = fc, !.c = Num(c), !.c_old = Num(c)]
    ELSE [l EXCEPT !.a = c, !.fa = fc, !.c = Num(c), !.c_old = Num(c)]

\* return c, abs(fc), i
cli_bisection_return(c, fc, k) == <<c, FAbs(fc), k>>

cli_bisection_entry ==
    /\ impl = "cli" /\ method = "bisection" /\ pc = "entry"
    /\ \E va \in Eval(fmem, args.a, FVals) :
       \E vb \in Eval(Remember(fmem, args.a, va), args.b, FVals) :
          /\ fmem' = Remember(Remember(fmem, args.a, va), args.b, vb)
          /\ loc' = [a |-> args.a, b |-> args.b, fa |-> va, fb |-> vb,
                     c |-> Unbound, c_old |-> PyNone]
          /\ IF cli_bracket_rejected(va, vb)
             THEN Raise(ValueError) /\ UNCHANGED out
             ELSE /\ pc' = "loop"
                  /\ out' = Append(out, Header(method))
                  /\ UNCHANGED <<state, error, result, rows>>
    /\ UNCHANGED <<impl, method, args, i, dmem, gmem, webOut>>

cli_bisection_pass ==
    /\ impl = "cli" /\ method = "bisection" /\ pc = "loop"
    /\ i < args.max_iter
    /\ LET c == cli_bisection_candidate(loc.a, loc.b) IN
       \E fc \in Eval(fmem, c, FVals) :
          LET err == cli_bracket_err(c, loc.c_old)
              line == <<i + 1, FormatFixed(loc.a), FormatFixed(loc.b),
                                FormatFixed(c), FormatSci(fc), FormatErr(err)>>
          IN  /\ fmem' = Remember(fmem, c, fc)
              /\ i' = i + 1
              /\ out' = Append(out, line)
              /\ IF cli_bisection_stop(loc.a, loc.b, c, fc, loc.c_old, args.tol)
                 THEN /\ Return("Converged", cli_bisection_return(c, fc, i + 1))
                      /\ loc' = [loc EXCEPT !.c = Num(c)]
                 ELSE /\ Continue
                      /\ loc' = cli_bracket_update(loc, c, fc)
    /\ UNCHANGED <<impl, method, args, rows, dmem, gmem, webOut>>

\* After the loop: return c, abs(f(c)), max_iter
cli_bisection_exit ==
    /\ impl = "cli" /\ method = "bisection" /\ pc = "loop"
    /\ i >= args.max_iter
    /\ IF loc.c = Unbound
       THEN Raise(UnboundLocalError) /\ UNCHANGED fmem
       ELSE \E v \in Eval(fmem, Val(loc.c), FVals) :
               /\ fmem' = Remember(fmem, Val(loc.c), v)
               /\ Return("Exhausted", cli_bisection_return(Val(loc.c), v, args.max_iter))
               /\ UNCHANGED rows
    /\ UNCHANGED <<impl, method, args, i, loc, out, dmem, gmem, webOut>>

----------------------------------------------------------------------------
(* ZOF_CLI.py: regula_falsi(f, a, b, max_iter, tol)                         *)

\* The divisor of c = (a * fb - b * fa) / (fb - fa)
cli_regula_denominator(fa, fb) == FSub(fb, fa)
cli_regula_candidate(a, b, fa, fb) ==
    FDiv(FSub(FMul(a, fb), FMul(b, fa)), cli_regula_denominator(fa, fb))

\* abs(fc) == 0 or (c_old is not None and abs(c - c_old) < tol)
cli_regula_stop(c, fc, c_old, tol) ==
    \/ FAbs(fc) = 0
    \/ (c_old # PyNone /\ FAbs(FSub(c, Val(c_old))) < tol)

\* return c, abs(fc), i
cli_regula_return(c, fc, k) == <<c, FAbs(fc), k>>

\* c = a, before the loop
cli_regula_initial_c(a) == Num(a)

cli_regula_falsi_entry ==
    /\ impl = "cli" /\ method = "regula_falsi" /\ pc = "entry"
    /\ \E va \in Eval(fmem, args.a, FVals) :
       \E vb \in Eval(Remember(fmem, args.a, va), args.b, FVals) :
          /\ fmem' = Remember(Remember(fmem, args.a, va), args.b, vb)
          /\ IF cli_bracket_rejected(va, vb)
             THEN /\ Raise(ValueError)
                  /\ loc' = [a |-> args.a, b |-> args.b, fa |-> va, fb |-> vb,
                             c |-> Unbound, c_old |-> PyNone, denom |-> Unbound]
                  /\ UNCHANGED out
             ELSE /\ pc' = "loop"
                  /\ out' = Append(out, Header(method))
                  /\ loc' = [a |-> args.a, b |-> args.b, fa |-> va, fb |-> vb,
                             c |-> cli_regula_initial_c(args.a), c_old |-> PyNone,
                             denom |-> Unbound]
                  /\ UNCHANGED <<state, error, result, rows>>
    /\ UNCHANGED <<impl, method, args, i, dmem, gmem, webOut>>

cli_regula_falsi_pass ==
    /\ impl = "cli" /\ method = "regula_falsi" /\ pc = "loop"
    /\ i < args.max_iter
    /\ i' = i + 1
    /\ LET d == cli_regula_denominator(loc.fa, loc.fb)
           c == cli_regula_candidate(loc.a, loc.b, loc.fa, loc.fb)
       IN  IF d = 0
           THEN /\ Raise(ZeroDivisionError)
                /\ loc' = [loc EXCEPT !.denom = Num(d)]
                /\ UNCHANGED <<fmem, out>>
           ELSE \E fc \in Eval(fmem, c, FVals) :
                   LET err == cli_bracket_err(c, loc.c_old)
                       line == <<i + 1, FormatFixed(loc.a), FormatFixed(loc.b),
                                FormatFixed(c), FormatSci(fc), FormatErr(err)>>
                   IN  /\ fmem' = Remember(fmem, c, fc)
                       /\ out' = Append(out, line)
                       /\ UNCHANGED rows
                       /\ IF cli_regula_stop(c, fc, loc.c_old, args.tol)
                          THEN /\ Return("Converged", cli_regula_return(c, fc, i + 1))
                               /\ loc' = [loc EXCEPT !.c = Num(c), !.denom = Num(d)]
                          ELSE /\ Continue
                               /\ loc' = [cli_bracket_update(loc, c, fc) EXCEPT !.denom = Num(d)]
    /\ UNCHANGED <<impl, method, args, dmem, gmem, webOut>>

\* After the loop: return c, abs(f(c)), max_iter
cli_regula_falsi_exit ==
    /\ impl = "cli" /\ method = "regula_falsi" /\ pc = "loop"
    /\ i >= args.max_iter
    /\ IF loc.c = Unbound
       THEN Raise(UnboundLocalError) /\ UNCHANGED fmem
       ELSE \E v \in Eval(fmem, Val(loc.c), FVals) :
               /\ fmem' = Remember(fmem, Val(loc.c), v)
               /\ Return("Exhausted", cli_regula_return(Val(loc.c), v, args.max_iter))
               /\ UNCHANGED rows
    /\ UNCHANGED <<impl, method, args, i, loc, out, dmem, gmem, webOut>>

----------------------------------------------------------------------------
(* ZOF_CLI.py: secant(f, x0, x1, max_iter, tol)                             *)

\* The divisor f1 - f0.
cli_secant_denominator(f0, f1) == FSub(f1, f0)

\* if (f1 - f0) == 0: raise ZeroDivisionError
cli_secant_degenerate(f0, f1) == FSub(f1, f0) = 0

\* x2 = x1 - f1 * (x1 - x0) / (f1 - f0)
cli_secant_candidate(x0, x1, f0, f1) ==
    FSub(x1, FDiv(FMul(f1, FSub(x1, x0)), cli_secant_denominator(f0, f1)))

\* abs(f2) == 0 or err < tol
cli_secant_stop(f2, err, tol) == FAbs(f2) = 0 \/ err < tol

\* return x2, abs(f2), i
cli_secant_return(x2, f2, k) == <<x2, FAbs(f2), k>>

cli_secant_entry ==
    /\ impl = "cli" /\ method = "secant" /\ pc = "entry"
    /\ pc' = "loop"
    /\ out' = Append(out, Header(method))
    /\ loc' = [x0 |-> args.x0, x1 |-> args.x1, x2 |-> Unbound, denom |-> Unbound]
    /\ UNCHANGED <<impl, method, args, state, i, rows, result, error,
                   fmem, dmem, gmem, webOut>>

cli_secant_pass ==
    /\ impl = "cli" /\ method = "secant" /\ pc = "loop"
    /\ i < args.max_iter
    /\ i' = i + 1
    /\ \E f0 \in Eval(fmem, loc.x0, FVals) :
       \E f1 \in Eval(Remember(fmem, loc.x0, f0), loc.x1, FVals) :
          LET m1 == Remember(Remember(fmem, loc.x0, f0), loc.x1, f1)
              d == cli_secant_denominator(f0, f1)
              x2 == cli_secant_candidate(loc.x0, loc.x1, f0, f1)
          IN  IF cli_secant_degenerate(f0, f1)
              THEN /\ Raise(ZeroDivisionError)
                   /\ loc' = [loc EXCEPT !.denom = Num(d)]
                   /\ fmem' = m1
                   /\ UNCHANGED out
              ELSE \E f2 \in Eval(m1, x2, FVals) :
                      LET err == FAbs(FSub(x2, loc.x1))
                          line == <<i + 1, FormatFixed(loc.x0), FormatFixed(loc.x1),
                                   FormatFixed(x2), FormatSci(f2),
                                   FormatErr(Num(err))>>
                      IN  /\ fmem' = Remember(m1, x2, f2)
                          /\ out' = Append(out, line)
                          /\ UNCHANGED rows
                          /\ IF cli_secant_stop(f2, err, args.tol)
                             THEN /\ Return("Converged", cli_secant_return(x2, f2, i + 1))
                                  /\ loc' = [loc EXCEPT !.x2 = Num(x2), !.denom = Num(d)]
                             ELSE /\ Continue
                                  /\ loc' = [x0 |-> loc.x1, x1 |-> x2, x2 |-> Num(x2),
                                             denom |-> Num(d)]
    /\ UNCHANGED <<impl, method, args, dmem, gmem, webOut>>

\* After the loop: return x2, abs(f(x2)), max_iter
cli_secant_exit ==
    /\ impl = "cli" /\ method = "secant" /\ pc = "loop"
    /\ i >= args.max_iter
    /\ IF loc.x2 = Unbound
       THEN Raise(UnboundLocalError) /\ UNCHANGED fmem
       ELSE \E v \in Eval(fmem, Val(loc.x2), FVals) :
               /\ fmem' = Remember(fmem, Val(loc.x2), v)
               /\ Return("Exhausted", cli_secant_return(Val(loc.x2), v, args.max_iter))
               /\ UNCHANGED rows
    /\ UNCHANGED <<impl, method, args, i, loc, out, dmem, gmem, webOut>>

----------------------------------------------------------------------------
(* ZOF_CLI.py: newton_raphson(f, df, x0, max_iter, tol)                     *)

\* if dfx == 0: raise ZeroDivisionError
cli_newton_zero_derivative(dfx) == dfx = 0

\* x1 = x0 - fx/dfx
cli_newton_candidate(x0, fx, dfx) == FSub(x0, FDiv(fx, dfx))

\* abs(fx) == 0 or err < tol
cli_newton_stop(fx, err, tol) == FAbs(fx) = 0 \/ err < tol

\* return x1, abs(f(x1)), i
cli_newton_return(x1, fx1, k) == <<x1, FAbs(fx1), k>>

cli_newton_raphson_entry ==
    /\ impl = "cli" /\ method = "newton_raphson" /\ pc = "entry"
    /\ pc' = "loop"
    /\ out' = Append(out, Header(method))
    /\ loc' = [x0 |-> args.x0, x1 |-> Unbound, fx |-> Unbound, dfx |-> Unbound]
    /\ UNCHANGED <<impl, method, args, state, i, rows, result, error,
                   fmem, dmem, gmem, webOut>>

cli_newton_raphson_pass ==
    /\ impl = "cli" /\ method = "newton_raphson" /\ pc = "loop"
    /\ i < args.max_iter
    /\ i' = i + 1
    /\ \E fx \in Eval(fmem, loc.x0, FVals) :
       \E dfx \in Eval(dmem, loc.x0, DVals) :
          LET m1 == Remember(fmem, loc.x0, fx)
              x1 == cli_newton_candidate(loc.x0, fx, dfx)
              err == FAbs(FSub(x1, loc.x0))
              line == <<i + 1, FormatFixed(loc.x0), FormatSci(fx), FormatSci(dfx),
                       FormatFixed(x1), FormatErr(Num(err))>>
          IN  /\ dmem' = Remember(dmem, loc.x0, dfx)
              /\ IF cli_newton_zero_derivative(dfx)
                 THEN /\ Raise(ZeroDivisionError)
                      /\ loc' = [loc EXCEPT !.fx = Num(fx), !.dfx = Num(dfx)]
                      /\ fmem' = m1
                      /\ UNCHANGED out
                 ELSE /\ out' = Append(out, line)
                      /\ UNCHANGED rows
                      /\ IF cli_newton_stop(fx, err, args.tol)
                         THEN \E fx1 \in Eval(m1, x1, FVals) :
                                 /\ fmem' = Remember(m1, x1, fx1)
                                 /\ Return("Converged", cli_newton_return(x1, fx1, i + 1))
                                 /\ loc' = [loc EXCEPT !.x1 = Num(x1), !.fx = Num(fx),
                                                       !.dfx = Num(dfx)]
                         ELSE /\ Continue
                              /\ fmem' = m1
                              /\ loc' = [x0 |-> x1, x1 |-> Num(x1), fx |-> Num(fx),
                                         dfx |-> Num(dfx)]
    /\ UNCHANGED <<impl, method, args, gmem, webOut>>

\* After the loop: return x1, abs(f(x1)), max_iter
cli_newton_raphson_exit ==
    /\ impl = "cli" /\ method = "newton_raphson" /\ pc = "loop"
    /\ i >= args.max_iter
    /\ IF loc.x1 = Unbound
       THEN Raise(UnboundLocalError) /\ UNCHANGED fmem
       ELSE \E v \in Eval(fmem, Val(loc.x1), FVals) :
               /\ fmem' = Remember(fmem, Val(loc.x1), v)
               /\ Return("Exhausted", cli_newton_return(Val(loc.x1), v, args.max_iter))
               /\ UNCHANGED rows
    /\ UNCHANGED <<impl, method, args, i, loc, out, dmem, gmem, webOut>>

----------------------------------------------------------------------------
(* ZOF_CLI.py: fixed_point_iteration(g_func, x0, max_iter, tol)             *)

\* err < tol
cli_fixed_stop(err, tol) == err < tol

\* return x1, err, i
cli_fixed_return(x1, err, k) == <<x1, err, k>>

cli_fixed_point_iteration_entry ==
    /\ impl = "cli" /\ method = "fixed_point_iteration" /\ pc = "entry"
    /\ pc' = "loop"
    /\ out' = Append(out, Header(method))
    /\ loc' = [x0 |-> args.x0, x1 |-> Unbound, err |-> Unbound]
    /\ UNCHANGED <<impl, method, args, state, i, rows, result, error,
                   fmem, dmem, gmem, webOut>>

cli_fixed_point_iteration_pass ==
    /\ impl = "cli" /\ method = "fixed_point_iteration" /\ pc = "loop"
    /\ i < args.max_iter
    /\ i' = i + 1
    /\ \E x1 \in Eval(gmem, loc.x0, GVals) :
          LET err == FAbs(FSub(x1, loc.x0))
              line == <<i + 1, FormatFixed(loc.x0), FormatSci(x1),
                       FormatErr(Num(err))>>
          IN  /\ gmem' = Remember(gmem, loc.x0, x1)
              /\ out' = Append(out, line)
              /\ IF cli_fixed_stop(err, args.tol)
                 THEN /\ Return("Converged", cli_fixed_return(x1, err, i + 1))
                      /\ loc' = [loc EXCEPT !.x1 = Num(x1), !.err = Num(err)]
                 ELSE /\ Continue
                      /\ loc' = [x0 |-> x1, x1 |-> Num(x1), err |-> Num(err)]
    /\ UNCHANGED <<impl, method, args, rows, fmem, dmem, webOut>>

\* After the loop: return x1, err, max_iter
cli_fixed_point_iteration_exit ==
    /\ impl = "cli" /\ method = "fixed_point_iteration" /\ pc = "loop"
    /\ i >= args.max_iter
    /\ IF loc.x1 = Unbound
       THEN Raise(UnboundLocalError)
       ELSE /\ Return("Exhausted",
                      cli_fixed_return(Val(loc.x1), Val(loc.err), args.max_iter))
            /\ UNCHANGED rows
    /\ UNCHANGED <<impl, method, args, i, loc, out, fmem, dmem, gmem, webOut>>

----------------------------------------------------------------------------
(* ZOF_CLI.py: modified_secant(f, x0, delta, max_iter, tol)                 *)

\* The point x0 + delta * x0 of the second call of f.
cli_modified_probe(x0, delta) == FAdd(x0, FMul(delta, x0))

\* The divisor f(x0 + delta * x0) - f_x0; Python raises ZeroDivisionError
\* when it is 0 (the function itself does not test it).
cli_modified_denominator(fp, fx) == FSub(fp, fx)

\* x1 = x0 - (delta * x0 * f_x0) / (f(x0 + delta * x0) - f_x0)
cli_modified_candidate(x0, delta, fx, fp) ==
    FSub(x0, FDiv(FMul(FMul(delta, x0), fx), cli_modified_denominator(fp, fx)))

\* err < tol
cli_modified_stop(err, tol) == err < tol

\* return x1, abs(f(x1)), i
cli_modified_return(x1, fx1, k) == <<x1, FAbs(fx1), k>>

cli_modified_secant_entry ==
    /\ impl = "cli" /\ method = "modified_secant" /\ pc = "entry"
    /\ pc' = "loop"
    /\ out' = Append(out, Header(method))
    /\ loc' = [x0 |-> args.x0, x1 |-> Unbound, denom |-> Unbound]
    /\ UNCHANGED <<impl, method, args, state, i, rows, result, error,
                   fmem, dmem, gmem, webOut>>

cli_modified_secant_pass ==
    /\ impl = "cli" /\ method = "modified_secant" /\ pc = "loop"
    /\ i < args.max_iter
    /\ i' = i + 1
    /\ LET xp == cli_modified_probe(loc.x0, args.delta) IN
       \E fx \in Eval(fmem, loc.x0, FVals) :
       \E fp \in Eval(Remember(fmem, loc.x0, fx), xp, FVals) :
          LET m1 == Remember(Remember(fmem, loc.x0, fx), xp, fp)
              d == cli_modified_denominator(fp, fx)
              x1 == cli_modified_candidate(loc.x0, args.delta, fx, fp)
              err == FAbs(FSub(x1, loc.x0))
              line == <<i + 1, FormatFixed(loc.x0), FormatSci(fx), FormatFixed(x1),
                       FormatErr(Num(err))>>
          IN  IF d = 0
              THEN /\ Raise(ZeroDivisionError)
                   /\ loc' = [loc EXCEPT !.denom = Num(d)]
                   /\ fmem' = m1
                   /\ UNCHANGED out
              ELSE /\ out' = Append(out, line)
                   /\ UNCHANGED rows
                   /\ IF cli_modified_stop(err, args.tol)
                      THEN \E fx1 \in Eval(m1, x1, FVals) :
                              /\ fmem' = Remember(m1, x1, fx1)
                              /\ Return("Converged", cli_modified_return(x1, fx1, i + 1))
                              /\ loc' = [loc EXCEPT !.x1 = Num(x1), !.denom = Num(d)]
                      ELSE /\ Continue
                           /\ fmem' = m1
                           /\ loc' = [x0 |-> x1, x1 |-> Num(x1), denom |-> Num(d)]
    /\ UNCHANGED <<impl, method, args, dmem, gmem, webOut>>

\* After the loop: return x1, abs(f(x1)), max_iter
cli_modified_secant_exit ==
    /\ impl = "cli" /\ method = "modified_secant" /\ pc = "loop"
    /\ i >= args.max_iter
    /\ IF loc.x1 = Unbound
       THEN Raise(UnboundLocalError) /\ UNCHANGED fmem
       ELSE \E v \in Eval(fmem, Val(loc.x1), FVals) :
               /\ fmem' = Remember(fmem, Val(loc.x1), v)
               /\ Return("Exhausted", cli_modified_return(Val(loc.x1), v, args.max_iter))
               /\ UNCHANGED rows
    /\ UNCHANGED <<impl, method, args, i, loc, out, dmem, gmem, webOut>>

----------------------------------------------------------------------------
(* The same problem is given to the command-line engine once the web       *)
(* engine has ended: main() calls the chosen function with the same f and  *)
(* the same inputs, in a fresh frame.                                       *)
cli_main ==
    /\ impl = "web" /\ pc = "done"
    /\ impl' = "cli"
    /\ webOut' = [state |-> state, result |-> result, error |-> error]
    /\ pc' = "entry"
    /\ state' = "Iterating"
    /\ i' = 0
    /\ loc' = NoLocals
    /\ rows' = << >>
    /\ out' = << >>
    /\ result' = NoResult
    /\ error' = NoError
    /\ UNCHANGED <<method, args, fmem, dmem, gmem>>

Next ==
    \/ app_bisection_entry
    \/ app_bisection_pass
    \/ app_bisection_exit
    \/ app_regula_falsi_entry
    \/ app_regula_falsi_pass
    \/ app_regula_falsi_exit
    \/ app_secant_entry
    \/ app_secant_pass
    \/ app_secant_exit
    \/ app_newton_raphson_entry
    \/ app_newton_raphson_pass
    \/ app_newton_raphson_exit
    \/ app_fixed_point_iteration_entry
    \/ app_fixed_point_iteration_pass
    \/ app_fixed_point_iteration_exit
    \/ app_modified_secant_entry
    \/ app_modified_secant_pass
    \/ app_modified_secant_exit
    \/ cli_bisection_entry
    \/ cli_bisection_pass
    \/ cli_bisection_exit
    \/ cli_regula_falsi_entry
    \/ cli_regula_falsi_pass
    \/ cli_regula_falsi_exit
    \/ cli_secant_entry
    \/ cli_secant_pass
    \/ cli_secant_exit
    \/ cli_newton_raphson_entry
    \/ cli_newton_raphson_pass
    \/ cli_newton_raphson_exit
    \/ cli_fixed_point_iteration_entry
    \/ cli_fixed_point_iteration_pass
    \/ cli_fixed_point_iteration_exit
    \/ cli_modified_secant_entry
    \/ cli_modified_secant_pass
    \/ cli_modified_secant_exit
    \/ cli_main

Spec == Init /\ [][Next]_vars

----------------------------------------------------------------------------
(* What the claims speak of.                                                *)
BracketMethods == {"bisection", "regula_falsi"}
Returned == result # NoResult
ValidConfig == args.max_iter >= 1 /\ args.tol >= 0
IsNum(t) == t[1] = "float"

\* The trace of the run: rows in app.py, the lines printed after the header
\* in ZOF_CLI.py.
Trace == IF impl = "web" THEN rows ELSE IF out = << >> THEN << >> ELSE Tail(out)

\* The slot of a record that holds the candidate: c, x2, x_new.
CandidateSlot(m) ==
    CASE m \in BracketMethods -> 4
      [] m = "secant" -> 4
      [] m = "newton_raphson" -> 5
      [] m = "fixed_point_iteration" -> 3
      [] m = "modified_secant" -> 4

\* The stopping predicate of each method, on a record of its trace.
Stops(m, r, tol) ==
    CASE m = "bisection" ->
           \/ r[5] = 0
           \/ (IsNum(r[6]) /\ Val(r[6]) < tol)
           \/ FDiv(FAbs(FSub(r[3], r[2])), Two) < tol
      [] m = "regula_falsi" -> r[5] = 0 \/ (IsNum(r[6]) /\ Val(r[6]) < tol)
      [] m = "secant" -> r[5] = 0 \/ Val(r[6]) < tol
      [] m = "newton_raphson" -> r[3] = 0 \/ Val(r[6]) < tol
      [] m = "fixed_point_iteration" -> Val(r[4]) < tol
      [] m = "modified_secant" -> Val(r[5]) < tol

\* C1: every result of a method of app.py has as many records as its
\* iteration count, and the k-th record holds the index k.
C1_TraceMatchesCount ==
    (impl = "web" /\ Returned) =>
        /\ Len(result[4]) = result[3]
        /\ \A k \in 1 .. Len(result[4]) : result[4][k][1] = k

C1_Witness ==
    /\ impl = "web" /\ ValidConfig /\ Returned /\ state = "Exhausted"
    /\ result[3] >= 2 /\ Len(result[4]) = result[3]

\* C2: Bisection and Regula Falsi, started on a bracket with
\* f(a) * f(b) <= 0, return a root inside [min(a, b), max(a, b)].
C2_RootInsideBracket ==
    (/\ method \in BracketMethods /\ ValidConfig /\ Returned
     /\ fmem[args.a] * fmem[args.b] <= 0) =>
        /\ result[1] >= (IF args.a <= args.b THEN args.a ELSE args.b)
        /\ result[1] <= (IF args.a <= args.b THEN args.b ELSE args.a)

\* C3: a run given max_iter <= 0 or tol < 0 fails and returns nothing; no
\* method returns an iteration count that is zero or negative.
C3_InvalidConfigurationFails ==
    /\ (args.max_iter <= 0 \/ args.tol < 0) =>
           (~Returned /\ (pc = "done" => state = "Failed"))
    /\ Returned => result[3] >= 1

\* C4: in Secant, Regula Falsi and Modified Secant a denominator that is
\* exactly zero, at the first or a later iteration, ends the run Failed,
\* with an error and with no result and none of the records built.
C4_ZeroDenominatorFails ==
    (/\ method \in {"secant", "regula_falsi", "modified_secant"}
     /\ pc # "entry"
     /\ loc.denom = Num(0)) =>
        /\ state = "Failed"
        /\ error # NoError
        /\ ~Returned
        /\ rows = << >>

C4_Witness ==
    /\ impl = "web" /\ ValidConfig /\ method = "secant" /\ pc = "done"
    /\ loc.denom = Num(0) /\ i >= 2 /\ state = "Failed"

\* C5: in Bisection the bracket held after the update of iteration i is no
\* wider than |b0 - a0| / 2^i.
C5_WidthHalves ==
    (method = "bisection" /\ ValidConfig /\ pc = "loop" /\ i >= 1) =>
        Abs(loc.b - loc.a) * Pow2(i) <= Abs(args.b - args.a)

\* C6: a run with max_iter >= 1 starts Iterating and ends, after at most
\* max_iter passes, in exactly one of Failed (an error, no result), Converged
\* (at the first pass whose stopping predicate holds, which is the count
\* returned) and Exhausted (the predicate failed at every pass 1..max_iter;
\* max_iter and the last candidate are returned); nothing runs after that.
\* The stopping predicate is read off the records app.py collects; of a run
\* of ZOF_CLI.py, which keeps no records, the outcome, the count and the
\* number of lines printed are checked.
C6_Records ==
    /\ state = "Iterating" =>
          \A k \in 1 .. Len(rows) : ~Stops(method, rows[k], args.tol)
    /\ state = "Converged" =>
          /\ Stops(method, rows[i], args.tol)
          /\ \A k \in 1 .. (i - 1) : ~Stops(method, rows[k], args.tol)
          /\ result[1] = rows[i][CandidateSlot(method)]
    /\ state = "Exhausted" =>
          /\ \A k \in 1 .. args.max_iter : ~Stops(method, rows[k], args.tol)
          /\ result[1] = rows[args.max_iter][CandidateSlot(method)]

C6_Outcome ==
    args.max_iter >= 1 =>
        /\ state \in {"Iterating", "Converged", "Exhausted", "Failed"}
        /\ (pc = "done") <=> (state # "Iterating")
        /\ i <= args.max_iter /\ Len(Trace) <= i
        /\ state = "Iterating" => ~Returned /\ error = NoError
        /\ state = "Failed" => ~Returned /\ error # NoError
        /\ state = "Converged" =>
              /\ Returned /\ error = NoError
              /\ result[3] = i /\ Len(Trace) = i
        /\ state = "Exhausted" =>
              /\ Returned /\ error = NoError
              /\ result[3] = args.max_iter /\ Len(Trace) = args.max_iter
        /\ impl = "web" => C6_Records

\* Nothing runs after the terminal outcome: the call has returned or raised.
C6_Terminal ==
    (pc = "done" /\ impl' = impl) => UNCHANGED <<state, i, rows, out, result, error>>

\* Every step of a run that has not ended either ends it or is one more pass
\* of the loop; with i <= max_iter (C6_Outcome) the loop is left after at
\* most max_iter passes.
C6_Progress ==
    (pc # "done" /\ impl' = impl) =>
        \/ pc' = "done"
        \/ pc = "entry" /\ pc' = "loop" /\ i' = 0
        \/ pc = "loop" /\ pc' = "loop" /\ i' = i + 1 /\ i' <= args.max_iter

C6_Lifecycle ==
    /\ [](C6_Outcome)
    /\ [][C6_Terminal /\ C6_Progress]_vars

C6_Witness ==
    /\ impl = "web" /\ ValidConfig /\ args.max_iter >= 3 /\ state = "Converged" /\ i = 2
    /\ method = "secant"

\* C7: the candidate of the last record of a result of app.py is the root
\* returned, for a converged and for an exhausted run.
C7_LastCandidateIsRoot ==
    (impl = "web" /\ Returned) =>
        /\ Len(result[4]) >= 1
        /\ result[4][Len(result[4])][CandidateSlot(method)] = result[1]

C7_Witness ==
    /\ impl = "web" /\ ValidConfig /\ Returned /\ method = "newton_raphson"
    /\ state = "Exhausted" /\ Len(result[4]) >= 2
    /\ result[4][Len(result[4])][2] # result[1]

\* C8: in Bisection, on a bracket with f(a) * f(b) <= 0, the endpoints of
\* every record satisfy f(a) * f(b) <= 0.
C8_SignChangeKept ==
    (/\ impl = "web" /\ method = "bisection" /\ ValidConfig /\ pc # "entry"
     /\ fmem[args.a] * fmem[args.b] <= 0) =>
        \A k \in 1 .. Len(rows) : fmem[rows[k][2]] * fmem[rows[k][3]] <= 0

\* C9 as stated: in Newton-Raphson, whenever f(x_n) == 0 at iteration i the
\* run returns at iteration i with root x_n, residual 0 and count i.
C9_ZeroResidualReturns ==
    (method = "newton_raphson" /\ ValidConfig /\ pc # "entry"
     /\ loc.fx = Num(0)) =>
        /\ state = "Converged"
        /\ result[1] = loc.x0 /\ result[2] = 0 /\ result[3] = i

\* C9 as amended: the same, whenever f(x_n) == 0 and df(x_n) # 0 (df is
\* tested first; with df(x_n) == 0 the run fails).
C9_ZeroResidualReturnsUnlessZeroDerivative ==
    (method = "newton_raphson" /\ args.max_iter >= 1 /\ pc # "entry"
     /\ loc.fx = Num(0) /\ loc.dfx # Num(0)) =>
        /\ state = "Converged"
        /\ result[1] = loc.x0 /\ result[2] = 0 /\ result[3] = i

C9_Witness ==
    /\ impl = "web" /\ method = "newton_raphson" /\ args.tol = 0
    /\ pc = "done" /\ loc.fx = Num(0) /\ loc.dfx # Num(0)
    /\ state = "Converged" /\ i >= 2

\* C10: for max_iter >= 1 and tol >= 0 the function of ZOF_CLI.py and the
\* function of app.py of the same name both fail or both return, and then
\* return the same root, residual and count.
SameOutcome ==
    /\ (state = "Failed") <=> (webOut.state = "Failed")
    /\ Returned <=> (webOut.result # NoResult)
    /\ Returned =>
          /\ result[1] = webOut.result[1]
          /\ result[2] = webOut.result[2]
          /\ result[3] = webOut.result[3]

\* The line ZOF_CLI.py prints for the record r app.py collects: each field
\* under its format spec, the missing first error of Bisection and Regula
\* Falsi (None in app.py) as nan.
FormatRow(m, r) ==
    CASE m \in BracketMethods ->
           <<r[1], FormatFixed(r[2]), FormatFixed(r[3]), FormatFixed(r[4]),
             FormatSci(r[5]), IF r[6] = PyNone THEN PyNaN ELSE FormatErr(r[6])>>
      [] m = "secant" ->
           <<r[1], FormatFixed(r[2]), FormatFixed(r[3]), FormatFixed(r[4]),
             FormatSci(r[5]), FormatErr(r[6])>>
      [] m = "newton_raphson" ->
           <<r[1], FormatFixed(r[2]), FormatSci(r[3]), FormatSci(r[4]),
             FormatFixed(r[5]), FormatErr(r[6])>>
      [] m = "fixed_point_iteration" ->
           <<r[1], FormatFixed(r[2]), FormatSci(r[3]), FormatErr(r[4])>>
      [] m = "modified_secant" ->
           <<r[1], FormatFixed(r[2]), FormatSci(r[3]), FormatFixed(r[4]),
             FormatErr(r[5])>>

CliDone == impl = "cli" /\ pc = "done" /\ ValidConfig

\* C10 as stated: ... and the rows printed are the rows collected.
C10_EnginesAgree ==
    CliDone => (SameOutcome /\ (Returned => Trace = webOut.result[4]))

\* C10 as amended: ... and the rows printed are the rows collected as the
\* format specs render them (fixed fraction digits for the points, fixed
\* significant digits for the values and the errors, nan for the missing
\* first error of Bisection and Regula Falsi).
C10_EnginesAgreeAsPrinted ==
    CliDone =>
        /\ SameOutcome
        /\ Returned =>
              /\ Len(Trace) = Len(webOut.result[4])
              /\ \A k \in 1 .. Len(Trace) :
                    Trace[k] = FormatRow(method, webOut.result[4][k])

C10_Witness ==
    /\ CliDone /\ Returned /\ method = "bisection" /\ state = "Converged"
    /\ result[3] >= 2 /\ webOut.result[3] = result[3]

====
